---------------------------- MODULE Spec2Model ----------------------------
(***************************************************************************)
(* The NEO container codec (neo.go): the base-255 varint, the repeating-   *)
(* key xor stream, NeoHeader.Marshall / UnMarshall, the streaming encoder  *)
(* NeoWriter, the streaming decoder NeoReader and the decodeFile pipeline. *)
(*                                                                         *)
(* Bytes are integers 0..255.  A uint32 is a pair of 16-bit halves         *)
(* [hi, lo].  A Go slice is a window [lo, hi) into a backing array of      *)
(* capacity c whose known prefix is the sequence a and whose other cells   *)
(* hold zero (as after make).                                              *)
(***************************************************************************)
EXTENDS Integers, Sequences, FiniteSets, TLC

VARIABLES
    cfg,      \* the encoding session: N, filename, crc32, keys, payload
    phase,    \* "write" | "file" | "read" | "decode" | "header" | "harness"
    w,        \* the NeoWriter
    sinkLog,  \* the writes that reached the writer's sink, in order
    fed,      \* the lengths of the chunks handed to NeoWriter.Write so far
    wres,     \* what the last NeoWriter.Write call returned
    file,     \* the container bytes on disk, and what was done to them
    r,        \* the NeoReader
    out,      \* every byte NeoReader.Read has returned, in order
    rres,     \* what the last NeoReader.Read call returned
    d,        \* decodeFile's locals, handles and files
    hx        \* the function under test on its own: a header (TestNeoHeader_Marshall),
              \* a varint (TestVint) or an xor stream, with its inputs and results

vars == <<cfg, phase, w, sinkLog, fed, wres, file, r, out, rres, d, hx>>

---------------------------------------------------------------------------
(* Bounds of the model *)

MaxN == 2
MaxPayload == 4
MaxBuf == 3
LongHeader == 255
\* the variable-length integers tried: 0..MaxU, and TopU with the multiple of
\* the sentinel below it
MaxU == 520
TopU == 65535
\* the longest byte sequence given to the xor stream
MaxXorLen == 3
\* by how many bytes a header's input is cut short or padded
MaxMismatch == 2
\* the leading-byte counts whose headers lie around the reader's scratch size,
\* and how many payload bytes follow the leading ones
MinLongN == 988
MaxLongN == 995
MaxTail == 2

---------------------------------------------------------------------------
(* Program constants *)

VersionV1 == 1
FlagVersion == 15
XorEnc == 1
Sentinel == 255
MagicLen == 4
ScratchSize == 1024
CopyBufSize == 32768

NeoMagicNumber == <<255, 78, 69, 79>>

Min(a, b) == IF a < b THEN a ELSE b

---------------------------------------------------------------------------
(* Bit arithmetic on bytes *)

Bit(a, i) == (a \div (2 ^ i)) % 2

XorBit(a, b, i) == ((Bit(a, i) + Bit(b, i)) % 2) * (2 ^ i)

AndBit(a, b, i) == (Bit(a, i) * Bit(b, i)) * (2 ^ i)

\* a ^ b on bytes
Xor8(a, b) ==
    XorBit(a, b, 0) + XorBit(a, b, 1) + XorBit(a, b, 2) + XorBit(a, b, 3)
    + XorBit(a, b, 4) + XorBit(a, b, 5) + XorBit(a, b, 6) + XorBit(a, b, 7)

\* a & b on bytes
And8(a, b) ==
    AndBit(a, b, 0) + AndBit(a, b, 1) + AndBit(a, b, 2) + AndBit(a, b, 3)
    + AndBit(a, b, 4) + AndBit(a, b, 5) + AndBit(a, b, 6) + AndBit(a, b, 7)

\* a ^ b on 16-bit halves
Xor16(a, b) == Xor8(a % 256, b % 256) + 256 * Xor8(a \div 256, b \div 256)

---------------------------------------------------------------------------
(* Go slices *)

NilSlice == [a |-> <<>>, c |-> 0, lo |-> 0, hi |-> 0]

\* the slice covering a freshly made array holding exactly the bytes s
SliceOf(s) == [a |-> s, c |-> Len(s), lo |-> 0, hi |-> Len(s)]

\* make([]byte, n)
MakeSlice(n) == [a |-> <<>>, c |-> n, lo |-> 0, hi |-> n]

ArrAt(a, i) == IF i < Len(a) THEN a[i + 1] ELSE 0

SLen(s) == s.hi - s.lo

SCap(s) == s.c - s.lo

SAt(s, i) == ArrAt(s.a, s.lo + i)

\* s[x:y] is legal when 0 <= x <= y <= cap(s)
SliceOK(s, x, y) == 0 <= x /\ x <= y /\ y <= SCap(s)

Slice(s, x, y) == [s EXCEPT !.lo = s.lo + x, !.hi = s.lo + y]

SBytes(s) == [i \in 1..SLen(s) |-> SAt(s, i - 1)]

\* the array a after copy(a[at:], data)
ArrWrite(a, at, data) ==
    IF Len(data) = 0 THEN a
    ELSE LET n == IF Len(a) > at + Len(data) THEN Len(a) ELSE at + Len(data)
         IN [i \in 1..n |->
               IF i > at /\ i <= at + Len(data) THEN data[i - at]
               ELSE ArrAt(a, i - 1)]

---------------------------------------------------------------------------
(* The variable-length integer codec *)

\* the final byte taken modulo 256: a final byte of 255 reads as a sentinel
encodeVUintMod256(u) == [i \in 1..(u \div Sentinel) |-> Sentinel] \o <<u % 256>>

encodeVUint(u) == [i \in 1..(u \div Sentinel) |-> Sentinel] \o <<u % Sentinel>>

\* the loop over p from idx on: every sentinel byte adds 255, the first other
\* byte adds its value and ends the loop; res is the sum so far
decodeVUintFrom(p, idx, res) ==
    LET stops == {i \in idx..(SLen(p) - 1) : SAt(p, i) # Sentinel}
    IN IF stops = {}
       THEN [res |-> res + Sentinel * Cardinality(idx..(SLen(p) - 1)),
             surplus |-> NilSlice]
       ELSE LET k == CHOOSE i \in stops : \A j \in stops : i <= j
            IN [res |-> res + Sentinel * (k - idx) + SAt(p, k),
                surplus |-> Slice(p, k + 1, SLen(p))]

decodeVUint(p) == decodeVUintFrom(p, 0, 0)

---------------------------------------------------------------------------
(* The xor stream *)

NewXorStream(key) == [idx |-> 0, key |-> key]

\* the stream with & typed for ^
XORKeyStreamAnd(s, src) ==
    IF Len(src) = 0 THEN [panic |-> FALSE, dst |-> <<>>, s |-> s]
    ELSE IF Len(s.key) = 0 THEN [panic |-> TRUE, dst |-> <<>>, s |-> s]
    ELSE [panic |-> FALSE,
          dst |-> [i \in 1..Len(src) |->
                     And8(src[i], s.key[(s.idx % Len(s.key)) + 1])],
          s |-> s]

\* dst after s.XORKeyStream(dst, src), dst being make([]byte, len(src));
\* panic: the index s.idx % len(s.key) of an empty key
XORKeyStream(s, src) ==
    IF Len(src) = 0 THEN [panic |-> FALSE, dst |-> <<>>, s |-> s]
    ELSE IF Len(s.key) = 0 THEN [panic |-> TRUE, dst |-> <<>>, s |-> s]
    ELSE [panic |-> FALSE,
          dst |-> [i \in 1..Len(src) |->
                     Xor8(src[i], s.key[(s.idx % Len(s.key)) + 1])],
          s |-> s]

writeContentWithXorEnc(buf, content, key) ==
    buf \o <<XorEnc>> \o encodeVUint(Len(key)) \o key
        \o encodeVUint(Len(content))
        \o XORKeyStream(NewXorStream(key), content).dst

LoadPanic == [panic |-> TRUE, content |-> <<>>, surplus |-> NilSlice]

\* secContent, surplus = surplus[:contentLen], surplus[contentLen:] and the xor
LoadContent(key, contentLen, s3) ==
    IF contentLen > SLen(s3) THEN LoadPanic
    ELSE LET x == XORKeyStream(NewXorStream(key), SBytes(Slice(s3, 0, contentLen)))
         IN [panic |-> x.panic,
             content |-> IF contentLen = 0 THEN <<>> ELSE x.dst,
             surplus |-> Slice(s3, contentLen, SLen(s3))]

\* key, surplus = surplus[:keyLen], surplus[keyLen:] and the content length
LoadKey(keyLen, s1) ==
    IF keyLen > SLen(s1) THEN LoadPanic
    ELSE LET cl == decodeVUint(Slice(s1, keyLen, SLen(s1)))
         IN LoadContent(SBytes(Slice(s1, 0, keyLen)), cl.res, cl.surplus)

\* the loader that forgets to undo the xor
loadContextNoXor(p) ==
    LET kl == decodeVUint(p)
        cl == decodeVUint(Slice(kl.surplus, kl.res, SLen(kl.surplus)))
    IN [panic |-> kl.res > SLen(kl.surplus) \/ cl.res > SLen(cl.surplus),
        content |-> SBytes(Slice(cl.surplus, 0, cl.res)),
        surplus |-> Slice(cl.surplus, cl.res, SLen(cl.surplus))]

loadContextWithXorEnc(p) ==
    LET kl == decodeVUint(p) IN LoadKey(kl.res, kl.surplus)

---------------------------------------------------------------------------
(* uint32 and the checksum *)

PutUint32(u) == <<u.hi \div 256, u.hi % 256, u.lo \div 256, u.lo % 256>>

Uint32(b) == [hi |-> b[1] * 256 + b[2], lo |-> b[3] * 256 + b[4]]

\* one shift of the register against the reversed IEEE polynomial 0xEDB88320
crcShift(c) ==
    LET hi == c.hi \div 2
        lo == (c.lo \div 2) + ((c.hi % 2) * 32768)
    IN IF c.lo % 2 = 1
       THEN [hi |-> Xor16(hi, 60856), lo |-> Xor16(lo, 33568)]
       ELSE [hi |-> hi, lo |-> lo]

RECURSIVE crcRounds(_, _)
crcRounds(c, k) ==
    IF k = 0 THEN c
    ELSE LET c1 == crcShift(c)
         IN IF c1.lo >= 0 THEN crcRounds(c1, k - 1) ELSE c1

crcByte(c, b) == crcRounds([c EXCEPT !.lo = Xor16(c.lo, b)], 8)

\* the register c after the bytes of data from the i-th on
RECURSIVE crcUpdate(_, _, _)
crcUpdate(c, data, i) ==
    IF i > Len(data) THEN c
    ELSE LET c1 == crcByte(c, data[i])
         IN IF c1.lo >= 0 THEN crcUpdate(c1, data, i + 1) ELSE c1

\* hash/crc32: NewIEEE, Write of all of data, Sum32
ChecksumIEEE(data) ==
    LET c == crcUpdate([hi |-> 65535, lo |-> 65535], data, 1)
    IN [hi |-> 65535 - c.hi, lo |-> 65535 - c.lo]

---------------------------------------------------------------------------
(* NeoHeader *)

\* new(NeoHeader)
ZeroHeader ==
    [Version |-> 0, OriginalHeaderEncMethod |-> 0, OriginalHeader |-> <<>>,
     OriginalFilenameEncMethod |-> 0, OriginalFilename |-> <<>>,
     Crc32 |-> [hi |-> 0, lo |-> 0]]

\* k1, k2: the four bytes rand.Reader gives for each field's key
Marshall(h, k1, k2) ==
    IF h.Version # VersionV1 THEN [err |-> "ErrBadVersion", bytes |-> <<>>]
    ELSE IF h.OriginalHeaderEncMethod # XorEnc
    THEN [err |-> "ErrUnknownCryptoMethod", bytes |-> <<>>]
    ELSE IF h.OriginalFilenameEncMethod # XorEnc
    THEN [err |-> "ErrUnknownCryptoMethod", bytes |-> <<>>]
    ELSE
    LET flag == And8(h.Version, FlagVersion)
        b1 == writeContentWithXorEnc(<<flag>>, h.OriginalHeader, k1)
        b2 == writeContentWithXorEnc(b1, h.OriginalFilename, k2)
        buf == b2 \o PutUint32(h.Crc32)
    IN [err |-> "nil",
        bytes |-> NeoMagicNumber \o encodeVUint(Len(buf)) \o buf]

UnMarshallPanic(h) == [err |-> "panic", h |-> h]

\* crc32, p = p[:4], p[4:]
UnMarshallCrc(h, p) ==
    IF SLen(p) < 4 THEN UnMarshallPanic(h)
    ELSE [err |-> "nil", h |-> [h EXCEPT !.Crc32 = Uint32(SBytes(Slice(p, 0, 4)))]]

UnMarshallNameLoaded(h, l) ==
    IF l.panic THEN UnMarshallPanic(h)
    ELSE UnMarshallCrc([h EXCEPT !.OriginalFilename = l.content], l.surplus)

\* h.OriginalFilenameEncMethod, p = p[0], p[1:] and the switch on it
UnMarshallName(h, p) ==
    IF SLen(p) = 0 THEN UnMarshallPanic(h)
    ELSE IF SAt(p, 0) # XorEnc
    THEN [err |-> "ErrUnknownCryptoMethod",
          h |-> [h EXCEPT !.OriginalFilenameEncMethod = SAt(p, 0)]]
    ELSE UnMarshallNameLoaded([h EXCEPT !.OriginalFilenameEncMethod = SAt(p, 0)],
                              loadContextWithXorEnc(Slice(p, 1, SLen(p))))

UnMarshallHeaderLoaded(h, l) ==
    IF l.panic THEN UnMarshallPanic(h)
    ELSE UnMarshallName([h EXCEPT !.OriginalHeader = l.content], l.surplus)

\* h.OriginalHeaderEncMethod, p = p[0], p[1:] and the switch on it
UnMarshallHeader(h, p) ==
    IF SLen(p) = 0 THEN UnMarshallPanic(h)
    ELSE IF SAt(p, 0) # XorEnc
    THEN [err |-> "ErrUnknownCryptoMethod",
          h |-> [h EXCEPT !.OriginalHeaderEncMethod = SAt(p, 0)]]
    ELSE UnMarshallHeaderLoaded([h EXCEPT !.OriginalHeaderEncMethod = SAt(p, 0)],
                                loadContextWithXorEnc(Slice(p, 1, SLen(p))))

\* the version check on the whole flags byte, the mask forgotten
UnMarshallFlagNoMask(h, p) ==
    IF SLen(p) = 0 THEN UnMarshallPanic(h)
    ELSE IF SAt(p, 0) # VersionV1
    THEN [err |-> "ErrBadVersion", h |-> [h EXCEPT !.Version = SAt(p, 0)]]
    ELSE UnMarshallHeader([h EXCEPT !.Version = SAt(p, 0)], Slice(p, 1, SLen(p)))

\* flag, p = p[0], p[1:] and the version check
UnMarshallFlag(h, p) ==
    IF SLen(p) = 0 THEN UnMarshallPanic(h)
    ELSE IF And8(SAt(p, 0), FlagVersion) # VersionV1
    THEN [err |-> "ErrBadVersion",
          h |-> [h EXCEPT !.Version = And8(SAt(p, 0), FlagVersion)]]
    ELSE UnMarshallHeader([h EXCEPT !.Version = And8(SAt(p, 0), FlagVersion)],
                          Slice(p, 1, SLen(p)))

\* the length prefix and its check against what follows
UnMarshallLen(h, dl) ==
    IF SLen(dl.surplus) # dl.res THEN UnMarshallPanic(h)
    ELSE UnMarshallFlag(h, dl.surplus)

\* h.UnMarshall(p): the error returned ("panic" when the call panics) and
\* the header as the call leaves it
UnMarshall(h, p) ==
    IF SLen(p) <= MagicLen THEN [err |-> "ErrNotNEOHeader", h |-> h]
    ELSE UnMarshallLen(h, decodeVUint(Slice(p, MagicLen, SLen(p))))

---------------------------------------------------------------------------
(* NeoWriter *)

NewNeoWriter(hdrLen, filename, crc32) ==
    [originHdrLen |-> hdrLen,
     hdr |-> [Version |-> VersionV1, OriginalHeaderEncMethod |-> XorEnc,
              OriginalHeader |-> <<>>, OriginalFilenameEncMethod |-> XorEnc,
              OriginalFilename |-> filename, Crc32 |-> crc32],
     buf |-> <<>>,
     isNewHdrWritten |-> FALSE]

\* the flag left unset
MarkWrittenForgotten(wr) == wr

\* w.isNewHdrWritten = true
MarkWritten(wr) == [wr EXCEPT !.isNewHdrWritten = TRUE]

\* w.Write(p) on a sink that takes every byte: the writer afterwards, the
\* writes made to the sink in order, and the call's result
NeoWriterWrite(wr, p, k1, k2) ==
    IF wr.isNewHdrWritten
    THEN [w |-> wr, writes |-> <<[kind |-> "content", data |-> p]>>,
          n |-> Len(p), err |-> "nil", panic |-> FALSE]
    ELSE IF Len(wr.buf) < wr.originHdrLen /\ Len(p) <= wr.originHdrLen
    THEN [w |-> [wr EXCEPT !.buf = wr.buf \o p], writes |-> <<>>,
          n |-> Len(p), err |-> "nil", panic |-> FALSE]
    ELSE
    LET buf1 == IF Len(wr.buf) < wr.originHdrLen
                THEN wr.buf \o SubSeq(p, 1, wr.originHdrLen)
                ELSE wr.buf
        w1 == [wr EXCEPT !.buf = buf1, !.hdr.OriginalHeader = buf1]
        m == Marshall(w1.hdr, k1, k2)
        w2 == MarkWritten(w1)
        hw == [kind |-> "hdr", data |-> m.bytes]
    IN IF m.err # "nil"
       THEN [w |-> w1, writes |-> <<>>, n |-> 0, err |-> m.err, panic |-> FALSE]
       ELSE IF wr.originHdrLen > Len(p)
       THEN [w |-> w2, writes |-> <<hw>>, n |-> 0, err |-> "nil", panic |-> TRUE]
       ELSE [w |-> w2,
             writes |-> <<hw, [kind |-> "content",
                               data |-> SubSeq(p, wr.originHdrLen + 1, Len(p))]>>,
             n |-> (Len(p) - wr.originHdrLen) + wr.originHdrLen,
             err |-> "nil", panic |-> FALSE]

---------------------------------------------------------------------------
(* NeoReader *)

NewNeoReader(src) ==
    [n |-> 0, src |-> src, hasHdr |-> FALSE, NeoHeader |-> ZeroHeader, buf |-> <<>>]

ReadResult(rd, a, n, err, panic) ==
    [r |-> rd, a |-> a, n |-> n, err |-> err, panic |-> panic]

\* return n_ + n, err_
AddN(res, n) == [res EXCEPT !.n = res.n + n]

ParseResult(rd, a, n, err, panic) ==
    [again |-> FALSE, res |-> ReadResult(rd, a, n, err, panic)]

\* r.rd.Read(p): the bufio.Reader over a source that is shorter than its
\* 4096-byte buffer and hands over all it has in one read
RdRead(rd, p) ==
    IF SLen(p) = 0 THEN ReadResult(rd, p.a, 0, "nil", FALSE)
    ELSE IF Len(rd.src) = 0 THEN ReadResult(rd, p.a, 0, "EOF", FALSE)
    ELSE LET k == Min(SLen(p), Len(rd.src))
         IN ReadResult([rd EXCEPT !.src = SubSeq(rd.src, k + 1, Len(rd.src))],
                       ArrWrite(p.a, p.lo, SubSeq(rd.src, 1, k)), k, "nil", FALSE)

\* the r.rd.ReadByte loop that sums the header length
RECURSIVE ReadHdrLen(_, _, _)
ReadHdrLen(src, hdrLen, cnt) ==
    IF Len(src) = 0
    THEN [eof |-> TRUE, hdrLen |-> hdrLen, cnt |-> cnt, src |-> src]
    ELSE IF Head(src) = Sentinel
    THEN ReadHdrLen(Tail(src), hdrLen + Sentinel, cnt + 1)
    ELSE [eof |-> FALSE, hdrLen |-> hdrLen + Head(src), cnt |-> cnt + 1,
          src |-> Tail(src)]

\* whether magic + varint + declared length fits r.buf
HdrFits(v) == ScratchSize >= MagicLen + v.cnt + v.hdrLen

\* hdr: r.buf[:4+n_+hdrLen], or else make([]byte, 4+n+hdrLen) where the named
\* result n is still 0; then the two copies into it
HdrBuf(rd, v) ==
    LET h0 == IF HdrFits(v)
              THEN [a |-> rd.buf, c |-> ScratchSize, lo |-> 0,
                    hi |-> MagicLen + v.cnt + v.hdrLen]
              ELSE MakeSlice(MagicLen + 0 + v.hdrLen)
        enc == encodeVUint(v.hdrLen)
    IN [h0 EXCEPT !.a =
          ArrWrite(ArrWrite(h0.a, 0, SubSeq(NeoMagicNumber, 1, Min(MagicLen, SLen(h0)))),
                   MagicLen, SubSeq(enc, 1, Min(Len(enc), SLen(h0) - MagicLen)))]

\* what r.Read(p) does with u, the outcome of r.NeoHeader.UnMarshall(hdr)
ParsedHdr(rd, p, u) ==
    IF u.err = "panic" THEN ParseResult(rd, p.a, 0, "nil", TRUE)
    ELSE IF u.err # "nil" THEN ParseResult(rd, p.a, 0, "nil", FALSE)
    ELSE [again |-> TRUE, res |-> ReadResult(rd, p.a, 0, "nil", FALSE)]

\* r.NeoHeader = new(NeoHeader), set as r.NeoHeader.UnMarshall(hdr) leaves it
SetHdr(rd, u) == [rd EXCEPT !.hasHdr = TRUE, !.NeoHeader = u.h]

UnMarshalled(rd, p, u) == ParsedHdr(SetHdr(rd, u), p, u)

ParseHdr(rd, p, hdr) == UnMarshalled(rd, p, UnMarshall(ZeroHeader, hdr))

\* r.rd.Read(hdr[len(NeoMagicNumber)+n_:]) and what follows it
ReadHdrTail(rd, p, v, hdr) ==
    LET t == RdRead(rd, Slice(hdr, MagicLen + v.cnt, SLen(hdr)))
        r3 == [t.r EXCEPT !.buf = IF HdrFits(v) THEN t.a ELSE rd.buf]
    IN IF t.err # "nil" THEN ParseResult(r3, p.a, 0, t.err, FALSE)
       ELSE ParseHdr(r3, p, [hdr EXCEPT !.a = t.a])

\* the r.rd.ReadByte loop and what follows it
ReadHdr(rd, p) ==
    LET v == ReadHdrLen(rd.src, 0, 0)
        r2 == [rd EXCEPT !.src = v.src]
    IN IF v.eof THEN ParseResult(r2, p.a, 0, "EOF", FALSE)
       ELSE IF MagicLen + v.cnt > MagicLen + 0 + v.hdrLen /\ ~HdrFits(v)
       THEN ParseResult(r2, p.a, 0, "nil", TRUE)
       ELSE ReadHdrTail(r2, p, v, HdrBuf(r2, v))

\* the header-parsing part of r.Read(p), r.NeoHeader being nil: what the call
\* returns, unless (again) it goes on to r.Read(p) with the parsed header
ReadParse(rd, p) ==
    LET m == RdRead(rd, [a |-> rd.buf, c |-> ScratchSize, lo |-> 0, hi |-> MagicLen])
        r1 == [m.r EXCEPT !.buf = m.a]
    IN IF m.err # "nil" THEN ParseResult(m.r, p.a, 0, "nil", FALSE)
       ELSE IF [i \in 1..MagicLen |-> ArrAt(r1.buf, i - 1)] # NeoMagicNumber
       THEN ParseResult(r1, p.a, 0, "ErrNotNEOHeader", FALSE)
       ELSE ReadHdr(r1, p)

\* r.Read(p) once r.NeoHeader is set: the replay of the leading bytes, then
\* the underlying source
RECURSIVE ReadReplay(_, _)
ReadReplay(rd, p) ==
    IF SLen(p) = 0 THEN ReadResult(rd, p.a, 0, "nil", FALSE)
    ELSE IF rd.n < Len(rd.NeoHeader.OriginalHeader)
    THEN LET oh == rd.NeoHeader.OriginalHeader
             n == Min(SLen(p), Len(oh) - rd.n)
             a1 == ArrWrite(p.a, p.lo, SubSeq(oh, rd.n + 1, rd.n + n))
             r1 == [rd EXCEPT !.n = rd.n + n]
         IN IF r1.n > SLen(p) THEN ReadResult(r1, a1, 0, "nil", TRUE)
            ELSE AddN(ReadReplay(r1, Slice([p EXCEPT !.a = a1], r1.n, SLen(p))), n)
    ELSE RdRead(rd, p)

\* return r.Read(p) after the parse, or what the parse returned
AfterParse(q, p) == IF q.again THEN ReadReplay(q.res.r, p) ELSE q.res

\* r.Read(p): the reader afterwards, the array behind p afterwards, and the
\* call's result
NeoReaderRead(rd, p) ==
    IF SLen(p) = 0 THEN ReadResult(rd, p.a, 0, "nil", FALSE)
    ELSE IF rd.hasHdr THEN ReadReplay(rd, p)
    ELSE AfterParse(ReadParse(rd, p), p)

---------------------------------------------------------------------------
(* The inputs of the model *)

PayloadByte(i) == IF i = 2 THEN 255 ELSE (80 + i) % 256

Payload(len) == [i \in 1..len |-> PayloadByte(i)]

Key1 == <<17, 34, 51, 68>>

Key2 == <<255, 0, 254, 1>>

HeartName == <<226, 157, 164>>

OtherCrc == [hi |-> 0, lo |-> 6655]

Sessions ==
    { [N |-> n, filename |-> HeartName, crc32 |-> c, k1 |-> Key1, k2 |-> Key2,
       payload |-> Payload(len)] :
        n \in 0..MaxN, len \in 0..MaxPayload,
        c \in {"sum", "other"} }

SessionCrc(c) == IF c.crc32 = "sum" THEN ChecksumIEEE(c.payload) ELSE OtherCrc

---------------------------------------------------------------------------
(* The state machine *)

RECURSIVE SumSeq(_, _)
SumSeq(q, i) == IF i > Len(q) THEN 0 ELSE q[i] + SumSeq(q, i + 1)

RECURSIVE Flatten(_, _)
Flatten(log, i) == IF i > Len(log) THEN <<>> ELSE log[i].data \o Flatten(log, i + 1)

\* the bytes the sink holds
SinkBytes == Flatten(sinkLog, 1)

\* how many payload bytes the caller has handed to Write
Fed == SumSeq(fed, 1)

NoWrite == [n |-> 0, err |-> "nil", panic |-> FALSE, calls |-> 0]

NoRead == [n |-> 0, err |-> "nil", panic |-> FALSE, calls |-> 0, adv |-> 0]

NoFile == [bytes |-> <<>>, tamper |-> "none", at |-> 0]

IdleDecode ==
    [pc |-> "idle", fromOpen |-> FALSE, toOpen |-> FALSE, tmpExists |-> FALSE,
     tmpData |-> <<>>, success |-> FALSE, log |-> "none", renamedTo |-> <<>>,
     renamed |-> FALSE, copied |-> FALSE, cbuf |-> <<>>]

IdleHeader == [pc |-> "idle"]

Init ==
    /\ cfg \in Sessions
    /\ phase = "write"
    /\ w = NewNeoWriter(cfg.N, cfg.filename, SessionCrc(cfg))
    /\ sinkLog = <<>>
    /\ fed = <<>>
    /\ wres = NoWrite
    /\ file = NoFile
    /\ r = NewNeoReader(<<>>)
    /\ out = <<>>
    /\ rres = NoRead
    /\ d = IdleDecode
    /\ hx = IdleHeader

\* the caller hands the next k payload bytes to w.Write
Write ==
    /\ phase = "write"
    /\ ~wres.panic
    /\ wres.err = "nil"
    /\ \E k \in 1..(Len(cfg.payload) - Fed) :
         LET p == SubSeq(cfg.payload, Fed + 1, Fed + k)
             x == NeoWriterWrite(w, p, cfg.k1, cfg.k2)
         IN /\ w' = x.w
            /\ sinkLog' = sinkLog \o x.writes
            /\ fed' = Append(fed, k)
            /\ wres' = [n |-> x.n, err |-> x.err, panic |-> x.panic,
                        calls |-> wres.calls + 1]
    /\ UNCHANGED <<cfg, phase, file, r, out, rres, d, hx>>

\* the whole payload was written: the sink's bytes are the container file
Close ==
    /\ phase = "write"
    /\ ~wres.panic
    /\ wres.err = "nil"
    /\ Fed = Len(cfg.payload)
    /\ phase' = "file"
    /\ file' = [bytes |-> SinkBytes, tamper |-> "none", at |-> 0]
    /\ UNCHANGED <<cfg, w, sinkLog, fed, wres, r, out, rres, d, hx>>

\* one byte of the stored container is damaged
Flip ==
    /\ phase = "file"
    /\ file.tamper = "none"
    /\ \E i \in 1..Len(file.bytes) :
         file' = [bytes |-> [file.bytes EXCEPT ![i] = Xor8(@, 3)],
                  tamper |-> "flip", at |-> i]
    /\ UNCHANGED <<cfg, phase, w, sinkLog, fed, wres, r, out, rres, d, hx>>

\* the stored container loses its tail
Truncate ==
    /\ phase = "file"
    /\ file.tamper = "none"
    /\ \E t \in 0..(Len(file.bytes) - 1) :
         file' = [bytes |-> SubSeq(file.bytes, 1, t), tamper |-> "trunc", at |-> t]
    /\ UNCHANGED <<cfg, phase, w, sinkLog, fed, wres, r, out, rres, d, hx>>

\* a caller wraps the container in a NeoReader
StartRead ==
    /\ phase = "file"
    /\ phase' = "read"
    /\ r' = NewNeoReader(file.bytes)
    /\ UNCHANGED <<cfg, w, sinkLog, fed, wres, file, out, rres, d, hx>>

\* the caller takes what r.Read returned
Took(x) ==
    /\ r' = x.r
    /\ out' = out \o [i \in 1..x.n |-> ArrAt(x.a, i - 1)]
    /\ rres' = [n |-> x.n, err |-> x.err, panic |-> x.panic,
                calls |-> Min(rres.calls + 1, 2), adv |-> x.r.n - r.n]

\* the caller reads into a fresh buffer of k bytes; it stops at the first error
Read ==
    /\ phase = "read"
    /\ ~rres.panic
    /\ rres.err = "nil"
    /\ \E k \in 1..MaxBuf : Took(NeoReaderRead(r, MakeSlice(k)))
    /\ UNCHANGED <<cfg, phase, w, sinkLog, fed, wres, file, d, hx>>

---------------------------------------------------------------------------
(* decodeFile *)

\* the deferred function: toFd.Close(), and os.Remove(toFilename) unless success
Deferred(dd) ==
    [dd EXCEPT !.toOpen = FALSE,
               !.tmpExists = IF dd.success THEN dd.tmpExists ELSE FALSE]

Returned(dd, msg) == [Deferred(dd) EXCEPT !.pc = "returned", !.log = msg]

Crashed(dd) == [Deferred(dd) EXCEPT !.pc = "crashed"]

\* one src.Read(buf) of io.Copy, buf being its 32 KiB buffer
CopyRead == NeoReaderRead(r, [a |-> d.cbuf, c |-> CopyBufSize, lo |-> 0,
                               hi |-> CopyBufSize])

\* os.Open(filename)
DecodeOpen ==
    /\ phase = "file"
    /\ phase' = "decode"
    /\ \E ok \in BOOLEAN :
         d' = IF ok THEN [d EXCEPT !.pc = "opened", !.fromOpen = TRUE]
              ELSE [d EXCEPT !.pc = "returned", !.log = "open"]
    /\ UNCHANGED <<cfg, w, sinkLog, fed, wres, file, r, out, rres, hx>>

\* os.OpenFile(toFilename, ...), the defer, crc32.NewIEEE, NewNeoReader
DecodeCreate ==
    /\ phase = "decode"
    /\ d.pc = "opened"
    /\ \E ok \in BOOLEAN :
         IF ok
         THEN /\ d' = [d EXCEPT !.pc = "copy", !.toOpen = TRUE,
                                !.tmpExists = TRUE, !.tmpData = <<>>]
              /\ r' = NewNeoReader(file.bytes)
         ELSE /\ d' = [d EXCEPT !.pc = "returned", !.log = "create"]
              /\ r' = r
    /\ UNCHANGED <<cfg, phase, w, sinkLog, fed, wres, file, out, rres, hx>>

\* decodeFile's locals after a turn of the loop that read x and wrote it
Copied(x) ==
    [d EXCEPT !.cbuf = x.a,
              !.tmpData = d.tmpData \o [i \in 1..x.n |-> ArrAt(x.a, i - 1)]]

CopyTurn(x) ==
    /\ r' = x.r
    /\ d' = IF x.panic THEN Crashed(Copied(x))
            ELSE IF x.err = "nil" THEN Copied(x)
            ELSE IF x.err = "EOF"
            THEN [Copied(x) EXCEPT !.pc = "check", !.toOpen = FALSE,
                                   !.copied = TRUE]
            ELSE Returned(Copied(x), "copy")

CopyTurnWriteFails(x) ==
    /\ ~x.panic
    /\ x.n > 0
    /\ r' = x.r
    /\ d' = Returned([d EXCEPT !.cbuf = x.a], "copy")

\* one turn of io.Copy's loop whose write to toFd succeeds
DecodeCopy ==
    /\ phase = "decode"
    /\ d.pc = "copy"
    /\ CopyTurn(CopyRead)
    /\ UNCHANGED <<cfg, phase, w, sinkLog, fed, wres, file, out, rres, hx>>

\* one turn of io.Copy's loop whose write to toFd fails
DecodeCopyWriteFails ==
    /\ phase = "decode"
    /\ d.pc = "copy"
    /\ CopyTurnWriteFails(CopyRead)
    /\ UNCHANGED <<cfg, phase, w, sinkLog, fed, wres, file, out, rres, hx>>

\* the comparison left out
CheckOutcomeUnchecked(dd, rd) ==
    IF ~rd.hasHdr THEN Crashed(dd)
    ELSE [dd EXCEPT !.pc = "rename", !.success = TRUE]

\* decodeFile after the comparison of h.Sum32() with neoRd.NeoHeader.Crc32,
\* which dereferences neoRd.NeoHeader
CheckOutcome(dd, rd) ==
    IF ~rd.hasHdr THEN Crashed(dd)
    ELSE IF ChecksumIEEE(dd.tmpData) # rd.NeoHeader.Crc32
    THEN Returned(dd, "crc")
    ELSE [dd EXCEPT !.pc = "rename", !.success = TRUE]

DecodeCheck ==
    /\ phase = "decode"
    /\ d.pc = "check"
    /\ d' = CheckOutcome(d, r)
    /\ UNCHANGED <<cfg, phase, w, sinkLog, fed, wres, file, r, out, rres, hx>>

\* os.Rename(toFilename, <dir>/OriginalFilename)
DecodeRename ==
    /\ phase = "decode"
    /\ d.pc = "rename"
    /\ \E ok \in BOOLEAN :
         d' = IF ok
              THEN Returned([d EXCEPT !.renamed = TRUE, !.tmpExists = FALSE,
                                      !.renamedTo = r.NeoHeader.OriginalFilename],
                            d.log)
              ELSE Returned(d, "rename")
    /\ UNCHANGED <<cfg, phase, w, sinkLog, fed, wres, file, r, out, rres, hx>>

Next ==
    \/ Write
    \/ Close
    \/ Flip
    \/ Truncate
    \/ StartRead
    \/ Read
    \/ DecodeOpen
    \/ DecodeCreate
    \/ DecodeCopy
    \/ DecodeCopyWriteFails
    \/ DecodeCheck
    \/ DecodeRename

Spec == Init /\ [][Next]_vars

---------------------------------------------------------------------------
(* The header round trip (TestNeoHeader_Marshall) *)

IdleSession ==
    [N |-> 0, filename |-> <<>>, crc32 |-> "other", k1 |-> Key1, k2 |-> Key2,
     payload |-> <<>>]

HeaderInputs ==
    { [Version |-> VersionV1, OriginalHeaderEncMethod |-> XorEnc,
       OriginalHeader |-> oh, OriginalFilenameEncMethod |-> XorEnc,
       OriginalFilename |-> fn, Crc32 |-> c] :
        oh \in {<<>>, <<82>>, <<82, 255, 0>>, Payload(LongHeader)},
        fn \in {<<>>, <<97>>, HeartName},
        c \in {[hi |-> 0, lo |-> 0], OtherCrc, [hi |-> 65535, lo |-> 65535]} }

KeyPairs == {<<Key1, Key2>>, <<Key2, Key1>>, <<<<0, 0, 0, 0>>, Key1>>}

InitHeader ==
    /\ cfg = IdleSession
    /\ phase = "header"
    /\ w = NewNeoWriter(0, <<>>, OtherCrc)
    /\ sinkLog = <<>>
    /\ fed = <<>>
    /\ wres = NoWrite
    /\ file = NoFile
    /\ r = NewNeoReader(<<>>)
    /\ out = <<>>
    /\ rres = NoRead
    /\ d = IdleDecode
    /\ \E h \in HeaderInputs, k \in KeyPairs :
         hx = [pc |-> "made", h |-> h, k1 |-> k[1], k2 |-> k[2], err |-> "nil",
               bytes |-> <<>>, u |-> [err |-> "nil", h |-> ZeroHeader]]

\* b, err := hdr.Marshall()
HeaderMarshall ==
    /\ hx.pc = "made"
    /\ LET m == Marshall(hx.h, hx.k1, hx.k2)
       IN hx' = [hx EXCEPT !.pc = "bytes", !.err = m.err, !.bytes = m.bytes]
    /\ UNCHANGED <<cfg, phase, w, sinkLog, fed, wres, file, r, out, rres, d>>

\* hdr_ := new(NeoHeader); hdr_.UnMarshall(b)
HeaderUnMarshall ==
    /\ hx.pc = "bytes"
    /\ hx.err = "nil"
    /\ hx' = [hx EXCEPT !.pc = "parsed",
                        !.u = UnMarshall(ZeroHeader, SliceOf(hx.bytes))]
    /\ UNCHANGED <<cfg, phase, w, sinkLog, fed, wres, file, r, out, rres, d>>

NextHeader == HeaderMarshall \/ HeaderUnMarshall

SpecHeader == InitHeader /\ [][NextHeader]_vars

---------------------------------------------------------------------------
(* What the claims are stated over *)

RECURSIVE FlattenKind(_, _, _)
FlattenKind(log, kind, i) ==
    IF i > Len(log) THEN <<>>
    ELSE (IF log[i].kind = kind THEN log[i].data ELSE <<>>)
         \o FlattenKind(log, kind, i + 1)

\* the bytes forwarded to the sink as content
ContentBytes == FlattenKind(sinkLog, "content", 1)

\* the payload bytes handed to Write so far
Written == SubSeq(cfg.payload, 1, Fed)

IsPrefix(a, b) == Len(a) <= Len(b) /\ a = SubSeq(b, 1, Len(a))

\* the stored container is what the writer produced
Untouched == file.tamper = "none"

\* the reader has nothing more to give: an error, a crash, or no bytes
ReadEnded ==
    rres.calls >= 1 /\ (rres.err # "nil" \/ rres.panic \/ rres.n = 0)

\* the sink's content if the whole payload is written in one Write call
OneShotSink ==
    Flatten(NeoWriterWrite(NewNeoWriter(cfg.N, cfg.filename, SessionCrc(cfg)),
                           cfg.payload, cfg.k1, cfg.k2).writes, 1)

\* where the flags byte, and the two method tags, sit in the stored container
FlagPos == MagicLen + ReadHdrLen(SubSeq(file.bytes, MagicLen + 1, Len(file.bytes)), 0, 0).cnt + 1

HeaderTagPos == FlagPos + 1

NameTagPos == FlagPos + 8 + Len(w.hdr.OriginalHeader)

\* C1: when the whole payload (of any length >= 1, also <= N) was written
\* and the sink's bytes are read to the end through a NeoReader, the bytes
\* returned are the payload and the reader's header carries the writer's crc.
C1_RoundTrip ==
    (phase = "read" /\ Untouched /\ Len(cfg.payload) >= 1 /\ ReadEnded)
        => /\ ~rres.panic
           /\ out = cfg.payload
           /\ r.hasHdr
           /\ r.NeoHeader.Crc32 = SessionCrc(cfg)

\* C2: no Write call crashes, and once the header is flushed its leading
\* bytes followed by the content forwarded to the sink are exactly the bytes
\* written so far.
C2_Conservation ==
    /\ ~wres.panic
    /\ w.isNewHdrWritten => w.hdr.OriginalHeader \o ContentBytes = Written

\* C3: the payload fed in 1-byte Write calls leaves the same sink content as
\* the payload fed in one Write call (same N, filename, crc and keys).
C3_ChunkingIndependent ==
    (/\ Len(cfg.payload) >= 1
     /\ wres.calls >= 1
     /\ \A i \in 1..Len(fed) : fed[i] = 1
     /\ (Fed = Len(cfg.payload) \/ wres.panic))
        => /\ ~wres.panic
           /\ SinkBytes = OneShotSink

\* C4: on a valid container, for any sequence of non-empty read buffers, no
\* Read crashes and the bytes returned are the header's leading bytes and
\* then the bytes after the header, each once and in order.
C4_ReplayThenPassthrough ==
    (phase = "read" /\ Untouched /\ w.isNewHdrWritten)
        => /\ ~rres.panic
           /\ IsPrefix(out, w.hdr.OriginalHeader \o ContentBytes)
           /\ rres.err = "EOF" => out = w.hdr.OriginalHeader \o ContentBytes

\* C5: the first Read on a container whose magic number, version or method
\* tag is damaged returns ErrNotNEOHeader, ErrBadVersion or
\* ErrUnknownCryptoMethod respectively, never a nil error.
C5_Rejection ==
    (phase = "read" /\ rres.calls = 1 /\ file.tamper = "flip" /\ w.isNewHdrWritten)
        => /\ file.at <= MagicLen => rres.err = "ErrNotNEOHeader"
           /\ file.at = FlagPos => rres.err = "ErrBadVersion"
           /\ file.at \in {HeaderTagPos, NameTagPos}
                 => rres.err = "ErrUnknownCryptoMethod"

\* the checksum decodeFile recomputes differs from the parsed header's
CrcDiffers == ChecksumIEEE(d.tmpData) # r.NeoHeader.Crc32

\* C6: in decodeFile, when the copy is done and the recomputed checksum
\* differs from the parsed header's, the mismatch is reported without a
\* crash, the temporary file is removed and nothing is renamed; the output
\* is renamed only if the two checksums are equal.
C6_CorruptionDetected ==
    /\ (d.pc \in {"returned", "crashed", "rename"} /\ d.copied /\ r.hasHdr
            /\ CrcDiffers)
          => (d.pc = "returned" /\ d.log = "crc" /\ ~d.tmpExists /\ ~d.renamed)
    /\ (d.renamed \/ d.success) => (r.hasHdr /\ ~CrcDiffers)

C6_Witness ==
    /\ d.pc = "returned"
    /\ d.log = "crc"
    /\ file.tamper = "flip"
    /\ file.at > Len(sinkLog[1].data)
    /\ ~d.tmpExists

\* C7: the serialized header is the first write to reach the sink and the
\* only header written; no content reaches the sink before it.
C7_HeaderFirst ==
    /\ \A i \in 1..Len(sinkLog) : (sinkLog[i].kind = "hdr") <=> (i = 1)
    /\ Len(sinkLog) >= 1
          => UnMarshall(ZeroHeader, SliceOf(sinkLog[1].data)).err = "nil"
    /\ w.isNewHdrWritten <=> Len(sinkLog) >= 1

C7_Witness ==
    /\ Len(sinkLog) >= 3
    /\ sinkLog[1].kind = "hdr"
    /\ Len(sinkLog[3].data) >= 1

\* C8: the accumulation buffer never holds more than N bytes, and the
\* header is serialized with exactly the first N bytes written.
C8_ExactlyFirstN ==
    /\ Len(w.buf) <= cfg.N
    /\ w.isNewHdrWritten
          => /\ Len(w.hdr.OriginalHeader) = cfg.N
             /\ w.hdr.OriginalHeader = SubSeq(cfg.payload, 1, cfg.N)

\* C9: after a Write call that returned without error, if at least N bytes
\* were accepted so far, the header has been written to the sink.
C9_FlushedAtThreshold ==
    (wres.calls >= 1 /\ ~wres.panic /\ wres.err = "nil" /\ Fed >= cfg.N)
        => w.isNewHdrWritten

\* C10: UnMarshall(Marshall(h)) succeeds and gives back h in every field,
\* for Version 1, both methods XorEnc, any leading bytes (also none), any
\* filename, any crc and any keys.
C10_HeaderRoundTrip ==
    /\ hx.pc \in {"bytes", "parsed"} => hx.err = "nil"
    /\ hx.pc = "parsed" => (hx.u.err = "nil" /\ hx.u.h = hx.h)

C10_Witness ==
    /\ hx.pc = "parsed"
    /\ hx.h.OriginalHeader = <<>>
    /\ hx.h.OriginalFilename = HeartName
    /\ hx.u.h.OriginalFilename = HeartName


---------------------------------------------------------------------------
(* The variable-length integer round trip (TestVint) *)

\* everything but the harness record is at rest
HarnessIdle ==
    /\ cfg = IdleSession
    /\ phase = "harness"
    /\ w = NewNeoWriter(0, <<>>, OtherCrc)
    /\ sinkLog = <<>>
    /\ fed = <<>>
    /\ wres = NoWrite
    /\ file = NoFile
    /\ r = NewNeoReader(<<>>)
    /\ out = <<>>
    /\ rres = NoRead
    /\ d = IdleDecode

VarintInputs == (0..MaxU) \cup {TopU, TopU - (TopU % Sentinel)}

InitVarint ==
    /\ HarnessIdle
    /\ \E u \in VarintInputs : hx = [pc |-> "vint", u |-> u]

\* v := encodeVUint(uint(i))
VarintEncode ==
    /\ hx.pc = "vint"
    /\ hx' = [pc |-> "encoded", u |-> hx.u, v |-> encodeVUint(hx.u)]
    /\ UNCHANGED <<cfg, phase, w, sinkLog, fed, wres, file, r, out, rres, d>>

\* what ui, p := decodeVUint(v) leaves
VarintDecoded(x) ==
    hx' = [pc |-> "decoded", u |-> hx.u, v |-> hx.v, ui |-> x.res,
           p |-> SBytes(x.surplus)]

\* ui, p := decodeVUint(v)
VarintDecode ==
    /\ hx.pc = "encoded"
    /\ VarintDecoded(decodeVUint(SliceOf(hx.v)))
    /\ UNCHANGED <<cfg, phase, w, sinkLog, fed, wres, file, r, out, rres, d>>

NextVarint == VarintEncode \/ VarintDecode

SpecVarint == InitVarint /\ [][NextVarint]_vars

\* C11: encodeVUint(u) is floor(u/255) bytes of 255 and then the byte
\* u mod 255, and decodeVUint of it gives u and an empty remainder.
C11_VarintRoundTrip ==
    /\ hx.pc \in {"encoded", "decoded"}
          => /\ Len(hx.v) = (hx.u \div 255) + 1
             /\ \A i \in 1..(hx.u \div 255) : hx.v[i] = 255
             /\ hx.v[Len(hx.v)] = hx.u % 255
    /\ hx.pc = "decoded" => (hx.ui = hx.u /\ hx.p = <<>>)

C11_Witness ==
    /\ hx.pc = "decoded"
    /\ hx.u = 510
    /\ hx.v = <<255, 255, 0>>
    /\ hx.ui = 510


---------------------------------------------------------------------------
(* The xor stream on its own *)

XorBytes == {0, 90, 255}

XorSources == UNION {[1..n -> XorBytes] : n \in 0..MaxXorLen}

XorKeys == {<<7>>, <<1, 2>>, Key1, Key2}

\* a fresh stream on key, about to transform src
XorStart(key, src, orig, pass) ==
    [pc |-> "xor", key |-> key, s |-> NewXorStream(key), src |-> src,
     orig |-> orig, dst |-> <<>>, done |-> 0, calls |-> 0, pass |-> pass,
     panic |-> FALSE]

InitXor ==
    /\ HarnessIdle
    /\ \E key \in XorKeys, src \in XorSources : hx = XorStart(key, src, src, 1)

\* the harness after s.XORKeyStream(dst, chunk) gave x, chunk being k bytes
XorCalled(x, k) ==
    hx' = [hx EXCEPT !.s = x.s, !.dst = hx.dst \o x.dst, !.done = hx.done + k,
                     !.calls = Min(hx.calls + 1, MaxXorLen),
                     !.panic = x.panic]

\* dst := make([]byte, k); s.XORKeyStream(dst, the next k bytes of src)
XorCall ==
    /\ hx.pc = "xor"
    /\ ~hx.panic
    /\ \E k \in 0..(Len(hx.src) - hx.done) :
         /\ k = 0 => hx.calls = 0
         /\ XorCalled(XORKeyStream(hx.s, SubSeq(hx.src, hx.done + 1, hx.done + k)), k)
    /\ UNCHANGED <<cfg, phase, w, sinkLog, fed, wres, file, r, out, rres, d>>

\* the result is given to another fresh stream on the same key
XorAgain ==
    /\ hx.pc = "xor"
    /\ hx.pass = 1
    /\ ~hx.panic
    /\ hx.calls >= 1
    /\ hx.done = Len(hx.src)
    /\ hx' = XorStart(hx.key, hx.dst, hx.orig, 2)
    /\ UNCHANGED <<cfg, phase, w, sinkLog, fed, wres, file, r, out, rres, d>>

NextXor == XorCall \/ XorAgain

SpecXor == InitXor /\ [][NextXor]_vars

\* C12: the i-th byte processed by one stream (from 0, across calls) comes
\* out as that byte xor key[i mod k], and the position counter is the number
\* of bytes processed so far.
C12_KeyRepeats ==
    (hx.pc = "xor" /\ hx.pass = 1)
        => /\ ~hx.panic
           /\ Len(hx.dst) = hx.done
           /\ \A i \in 1..Len(hx.dst) :
                 hx.dst[i] = Xor8(hx.orig[i], hx.key[((i - 1) % Len(hx.key)) + 1])
           /\ hx.s.idx = hx.done

\* C13: a fresh stream on a key applied to s, and another fresh stream on
\* the same key applied to the result, give back s.
C13_Involution ==
    (hx.pc = "xor" /\ hx.pass = 2 /\ hx.calls >= 1 /\ hx.done = Len(hx.src))
        => (~hx.panic /\ hx.dst = hx.orig)

C13_Witness ==
    /\ hx.pc = "xor"
    /\ hx.pass = 2
    /\ hx.calls = 1
    /\ hx.key = Key1
    /\ hx.orig = <<90, 0, 255>>
    /\ hx.src # hx.orig
    /\ hx.dst = hx.orig


---------------------------------------------------------------------------
(* Marshall and UnMarshall on headers and inputs that must be refused *)

ValidateHeaders ==
    { [Version |-> v, OriginalHeaderEncMethod |-> m1, OriginalHeader |-> oh,
       OriginalFilenameEncMethod |-> m2, OriginalFilename |-> HeartName,
       Crc32 |-> OtherCrc] :
        v \in {0, 1, 2, 17}, m1 \in {0, 1, 2}, m2 \in {0, 1, 2},
        oh \in {<<>>, <<82, 255, 0>>} }

NoTamper == [kind |-> "none", flag |-> 0, tag1 |-> 0, tag2 |-> 0, by |-> 0]

InitValidate ==
    /\ HarnessIdle
    /\ \E h \in ValidateHeaders :
         hx = [pc |-> "made", h |-> h, k1 |-> Key1, k2 |-> Key2, err |-> "nil",
               bytes |-> <<>>, u |-> [err |-> "nil", h |-> ZeroHeader],
               t |-> NoTamper]

\* where Marshall put the flags byte and the two method tags
MarshalledFlagPos(b) ==
    Len(b) - SLen(decodeVUint(Slice(SliceOf(b), MagicLen, Len(b))).surplus) + 1

MarshalledTag1Pos(b) == MarshalledFlagPos(b) + 1

MarshalledTag2Pos(b, h) ==
    MarshalledTag1Pos(b) + 1 + Len(encodeVUint(Len(Key1))) + Len(Key1)
        + Len(encodeVUint(Len(h.OriginalHeader))) + Len(h.OriginalHeader)

FlagValues == {0, 1, 2, 16, 17, 241}

TagValues == {0, 1, 2, 255}

\* the serialized header with other flags and tags, its framing kept
Reframed(b, h, f, t1, t2) ==
    [b EXCEPT ![MarshalledFlagPos(b)] = f, ![MarshalledTag1Pos(b)] = t1,
              ![MarshalledTag2Pos(b, h)] = t2]

\* the bytes handed to UnMarshall are not the ones Marshall gave
HeaderTamper ==
    /\ hx.pc = "bytes"
    /\ hx.err = "nil"
    /\ hx.t.kind = "none"
    /\ \/ \E f \in FlagValues, t1 \in TagValues, t2 \in TagValues :
            hx' = [hx EXCEPT !.bytes = Reframed(hx.bytes, hx.h, f, t1, t2),
                             !.t = [kind |-> "framed", flag |-> f, tag1 |-> t1,
                                    tag2 |-> t2, by |-> 0]]
       \/ \E n \in 0..MagicLen :
            hx' = [hx EXCEPT !.bytes = SubSeq(hx.bytes, 1, n),
                             !.t = [NoTamper EXCEPT !.kind = "short", !.by = n]]
       \/ \E j \in 1..MaxMismatch :
            hx' = [hx EXCEPT !.bytes = SubSeq(hx.bytes, 1, Len(hx.bytes) - j),
                             !.t = [NoTamper EXCEPT !.kind = "cut", !.by = j]]
       \/ \E j \in 1..MaxMismatch :
            hx' = [hx EXCEPT !.bytes = hx.bytes \o [i \in 1..j |-> 0],
                             !.t = [NoTamper EXCEPT !.kind = "pad", !.by = j]]
    /\ UNCHANGED <<cfg, phase, w, sinkLog, fed, wres, file, r, out, rres, d>>

NextValidate == HeaderMarshall \/ HeaderTamper \/ HeaderUnMarshall

SpecValidate == InitValidate /\ [][NextValidate]_vars

\* C14: Marshall gives ErrBadVersion and no bytes when Version is not 1, else
\* ErrUnknownCryptoMethod and no bytes when a method tag is not XorEnc;
\* UnMarshall of a well-framed input gives ErrBadVersion exactly when the
\* encoded version is not 1, ErrUnknownCryptoMethod exactly when the version
\* is 1 and a method tag is not XorEnc, and ErrNotNEOHeader on fewer than 5
\* bytes.
C14_ValidationErrors ==
    /\ hx.pc \in {"bytes", "parsed"}
          => /\ hx.h.Version # 1 => (hx.err = "ErrBadVersion" /\ hx.bytes = <<>>)
             /\ (hx.h.Version = 1 /\ (hx.h.OriginalHeaderEncMethod # 1
                                       \/ hx.h.OriginalFilenameEncMethod # 1))
                   => (hx.err = "ErrUnknownCryptoMethod" /\ hx.bytes = <<>>)
    /\ (hx.pc = "parsed" /\ hx.t.kind = "framed")
          => /\ (hx.u.err = "ErrBadVersion") <=> (hx.t.flag % 16 # 1)
             /\ (hx.u.err = "ErrUnknownCryptoMethod")
                   <=> (hx.t.flag % 16 = 1 /\ (hx.t.tag1 # 1 \/ hx.t.tag2 # 1))
             /\ (hx.u.err = "nil")
                   <=> (hx.t.flag % 16 = 1 /\ hx.t.tag1 = 1 /\ hx.t.tag2 = 1)
    /\ (hx.pc = "parsed" /\ hx.t.kind = "short") => hx.u.err = "ErrNotNEOHeader"

C14_Witness ==
    /\ hx.pc = "parsed"
    /\ hx.t.kind = "framed"
    /\ hx.t.flag = 17
    /\ hx.t.tag1 = 1
    /\ hx.t.tag2 = 2
    /\ hx.u.err = "ErrUnknownCryptoMethod"

\* C16: UnMarshall of at least 5 bytes whose declared header length differs
\* from the number of bytes after the length prefix returns an error: it
\* does not crash and does not succeed.
C16_MismatchIsError ==
    (hx.pc = "parsed" /\ hx.t.kind \in {"cut", "pad"})
        => hx.u.err \notin {"panic", "nil"}


---------------------------------------------------------------------------
(* Containers whose header is about as long as the reader's scratch buffer *)

LongSessions ==
    { [N |-> n, filename |-> HeartName, crc32 |-> "other", k1 |-> Key1,
       k2 |-> Key2, payload |-> Payload(n + t)] :
        n \in MinLongN..MaxLongN, t \in 1..MaxTail }

InitLong ==
    /\ cfg \in LongSessions
    /\ phase = "write"
    /\ w = NewNeoWriter(cfg.N, cfg.filename, SessionCrc(cfg))
    /\ sinkLog = <<>>
    /\ fed = <<>>
    /\ wres = NoWrite
    /\ file = NoFile
    /\ r = NewNeoReader(<<>>)
    /\ out = <<>>
    /\ rres = NoRead
    /\ d = IdleDecode
    /\ hx = IdleHeader

\* the caller's Write call left x
Wrote(x, k) ==
    /\ w' = x.w
    /\ sinkLog' = sinkLog \o x.writes
    /\ fed' = Append(fed, k)
    /\ wres' = [n |-> x.n, err |-> x.err, panic |-> x.panic,
                calls |-> wres.calls + 1]

\* the whole payload goes to w.Write in one call, as io.Copy hands over a
\* source shorter than its buffer
WriteWhole ==
    /\ phase = "write"
    /\ fed = <<>>
    /\ Wrote(NeoWriterWrite(w, cfg.payload, cfg.k1, cfg.k2), Len(cfg.payload))
    /\ UNCHANGED <<cfg, phase, file, r, out, rres, d, hx>>

\* the caller reads into a buffer as large as io.Copy's
ReadLarge ==
    /\ phase = "read"
    /\ ~rres.panic
    /\ rres.err = "nil"
    /\ Took(NeoReaderRead(r, MakeSlice(CopyBufSize)))
    /\ UNCHANGED <<cfg, phase, w, sinkLog, fed, wres, file, d, hx>>

NextLong == WriteWhole \/ Close \/ StartRead \/ Read \/ ReadLarge

SpecLong == InitLong /\ [][NextLong]_vars

\* the container's header does not fit the reader's scratch buffer
HeaderExceedsScratch ==
    /\ Len(sinkLog) >= 1
    /\ Len(sinkLog[1].data) > ScratchSize

\* C15: the first Read on a valid container whose header is longer than the
\* reader's 1024-byte buffer does not crash, parses the header and starts
\* returning the original content, as it does for headers that fit.
C15_LongHeaderParsed ==
    (phase = "read" /\ Untouched /\ rres.calls = 1 /\ HeaderExceedsScratch)
        => /\ ~rres.panic
           /\ r.hasHdr
           /\ r.NeoHeader.OriginalHeader = w.hdr.OriginalHeader
           /\ Len(out) >= 1
           /\ IsPrefix(out, cfg.payload)


---------------------------------------------------------------------------
(* The reader and decodeFile on damaged or truncated containers *)

\* the damaged byte is one whose damage makes UnMarshall return an error
ParseMustFail ==
    /\ file.tamper = "flip"
    /\ w.isNewHdrWritten
    /\ file.at \in {FlagPos, HeaderTagPos, NameTagPos}

\* C17: after a header parse that failed, the reader's NeoHeader is still
\* absent.
C17_HeaderOnlyAfterSuccess ==
    (phase \in {"read", "decode"} /\ ParseMustFail) => ~r.hasHdr

\* C18: a Read with a non-empty buffer on a source that ends before the magic
\* number returns a non-nil error, never zero bytes with a nil error.
C18_TruncatedSourceEnds ==
    (phase = "read" /\ rres.calls >= 1 /\ Len(file.bytes) < MagicLen)
        => (~rres.panic /\ rres.err # "nil")

\* C19: when the copy in decodeFile has completed without error, the reader's
\* header has been parsed, and decodeFile does not crash on it.
C19_HeaderParsedBeforeUse ==
    (phase = "decode" /\ d.copied) => (r.hasHdr /\ d.pc # "crashed")

\* C20: when decodeFile has returned, the source file and the destination
\* file are closed.
C20_HandlesReleased ==
    (phase = "decode" /\ d.pc = "returned") => (~d.fromOpen /\ ~d.toOpen)

=============================================================================
